---------------------------- MODULE Spec2Model ----------------------------
(***************************************************************************)
(* A model of the yt-assorted stitch server (src/server/index.js): the     *)
(* timestamp codec, the /api/process request handler with the external     *)
(* processes it awaits, the job registry with its eviction timer, and the  *)
(* /api/download handler.                                                  *)
(*                                                                         *)
(* JavaScript runs one callback at a time, so every action below is one    *)
(* callback together with the promise continuation it wakes: the code of   *)
(* the handler from one `await` to the next.                               *)
(*                                                                         *)
(* Text (timestamps, urls, process output) is a sequence of one-character  *)
(* strings.  A JavaScript number is an exact rational [num, den] with den  *)
(* a power of ten; the inputs of the model are chosen among the values a   *)
(* binary64 holds exactly.                                                 *)
(***************************************************************************)
EXTENDS Integers, Sequences, FiniteSets, TLC

(***************************************************************************)
(* Bounds of the model.                                                    *)
(***************************************************************************)
MaxReqs == 2      \* requests that arrive
MaxSegs == 2      \* rows of a batch
MaxChunks == 1    \* output chunks the children emit
MaxJumps == 4     \* timer periods the clock runs through
MaxTicks == 1     \* single milliseconds the clock advances inside a period
MaxSmall == 130   \* the second counts formatted one by one

(***************************************************************************)
(* Program constants.                                                      *)
(***************************************************************************)
RetentionMs == 3600000    \* 60 * 60 * 1000
IntervalMs == 900000      \* 15 * 60 * 1000

(***************************************************************************)
(* Text helpers.                                                           *)
(***************************************************************************)
Digits == <<"0", "1", "2", "3", "4", "5", "6", "7", "8", "9">>

IsDigit(c) == \E i \in 1..10 : Digits[i] = c

DigitVal(c) == (CHOOSE i \in 1..10 : Digits[i] = c) - 1

IsSpace(c) == c \in {" ", "\t", "\n"}

AllDigits(s) == \A i \in 1..Len(s) : IsDigit(s[i])

RECURSIVE DigitsVal(_)
DigitsVal(s) ==
    IF s = <<>> THEN 0
    ELSE 10 * DigitsVal(SubSeq(s, 1, Len(s) - 1)) + DigitVal(s[Len(s)])

RECURSIVE Pow10(_)
Pow10(k) == IF k = 0 THEN 1 ELSE 10 * Pow10(k - 1)

\* String.prototype.trim
Trim(s) ==
    LET keep == {i \in 1..Len(s) : ~IsSpace(s[i])}
    IN  IF keep = {} THEN <<>>
        ELSE LET lo == CHOOSE i \in keep : \A j \in keep : i <= j
                 hi == CHOOSE i \in keep : \A j \in keep : j <= i
             IN  SubSeq(s, lo, hi)

\* String.prototype.split on a one-character separator
RECURSIVE Split(_, _)
Split(s, sep) ==
    LET at == {i \in 1..Len(s) : s[i] = sep}
    IN  IF at = {} THEN <<s>>
        ELSE LET i == CHOOSE k \in at : \A j \in at : k <= j
             IN  <<SubSeq(s, 1, i - 1)>> \o Split(SubSeq(s, i + 1, Len(s)), sep)

(***************************************************************************)
(* Numbers.                                                                *)
(***************************************************************************)
NaN == [nan |-> TRUE, num |-> 0, den |-> 1]

Num(n, d) == [nan |-> FALSE, num |-> n, den |-> d]

IsInteger(x) == ~x.nan /\ x.num % x.den = 0

Less(x, y) == x.num * y.den < y.num * x.den

Add(x, y) == Num(x.num * y.den + y.num * x.den, x.den * y.den)

Times(x, k) == Num(x.num * k, x.den)

Minus(x, y) == Add(x, Times(y, -1))

\* the first index of s holding one of chars, Len(s) + 1 when there is none
FirstIndex(s, chars) ==
    LET at == {i \in 1..Len(s) : s[i] \in chars}
    IN  IF at = {} THEN Len(s) + 1 ELSE CHOOSE i \in at : \A j \in at : i <= j

\* the digits ip.fp times ten to the e
Decimal(ip, fp, e) ==
    IF e >= Len(fp) THEN Num(DigitsVal(ip \o fp) * Pow10(e - Len(fp)), 1)
    ELSE Num(DigitsVal(ip \o fp), Pow10(Len(fp) - e))

\* Digits, Digits.Digits, Digits. or .Digits, with the point at dPos
MantissaAt(mant, dPos, e) ==
    LET ip == SubSeq(mant, 1, dPos - 1)
        fp == SubSeq(mant, dPos + 1, Len(mant))
    IN  IF AllDigits(ip) /\ AllDigits(fp) /\ (ip \o fp) # <<>>
        THEN Decimal(ip, fp, e)
        ELSE NaN

Mantissa(mant, e) == MantissaAt(mant, FirstIndex(mant, {"."}), e)

\* the exponent part after its e: an optional sign and digits
ExpDigits(expo) ==
    IF expo # <<>> /\ expo[1] \in {"+", "-"} THEN Tail(expo) ELSE expo

ExpOk(expo) == ExpDigits(expo) # <<>> /\ AllDigits(ExpDigits(expo))

ExpVal(expo) ==
    IF expo[1] = "-" THEN 0 - DigitsVal(ExpDigits(expo)) ELSE DigitsVal(ExpDigits(expo))

UnsignedAt(t, ePos) ==
    IF ePos > Len(t) THEN Mantissa(t, 0)
    ELSE IF ExpOk(SubSeq(t, ePos + 1, Len(t)))
    THEN Mantissa(SubSeq(t, 1, ePos - 1), ExpVal(SubSeq(t, ePos + 1, Len(t))))
    ELSE NaN

\* the unsigned part of a StrDecimalLiteral: digits, an optional fraction, an
\* optional exponent
Unsigned(t) == UnsignedAt(t, FirstIndex(t, {"e", "E"}))

WithSign(negative, x) == IF negative /\ ~x.nan THEN Times(x, -1) ELSE x

Signed(t) ==
    IF t = <<>> THEN Num(0, 1)
    ELSE WithSign(t[1] = "-", Unsigned(IF t[1] \in {"+", "-"} THEN Tail(t) ELSE t))

\* Number(string): white space is trimmed, the empty string is 0, a decimal
\* literal may carry a sign, a fraction and an exponent, anything else is NaN
\* (Infinity and the 0x, 0o and 0b literals are not among the inputs).
NumberOf(s) == Signed(Trim(s))

(***************************************************************************)
(* The timestamp codec.  A value is a string or something else (a number,  *)
(* undefined, ...).                                                        *)
(***************************************************************************)
Str(s) == [str |-> TRUE, s |-> s]

NotAString == [str |-> FALSE, s |-> <<>>]

Null == [null |-> TRUE, nan |-> FALSE, num |-> 0, den |-> 1]

Value(x) == [null |-> FALSE, nan |-> FALSE, num |-> x.num, den |-> x.den]

\* lines 45-48: parts is v.split(':').map(Number)
FromParts(parts) ==
    IF \E i \in 1..Len(parts) : parts[i].nan THEN Null
    ELSE IF Len(parts) = 2 THEN Value(Add(Times(parts[1], 60), parts[2]))
    ELSE IF Len(parts) = 3
    THEN Value(Add(Add(Times(parts[1], 3600), Times(parts[2], 60)), parts[3]))
    ELSE Null

MapNumber(groups) == [i \in 1..Len(groups) |-> NumberOf(groups[i])]

\* lines 42-48: v is value.trim()
ParseTrimmed(v) ==
    IF v = <<>> THEN Null
    ELSE IF AllDigits(v) THEN Value(Num(DigitsVal(v), 1))
    ELSE FromParts(MapNumber(Split(v, ":")))

parseTimestamp(value) == IF ~value.str THEN Null ELSE ParseTrimmed(Trim(value.s))

\* Number.prototype.toString of a non-negative integer below 10^21
RECURSIVE ToDigits(_)
ToDigits(n) ==
    IF n < 10 THEN <<Digits[n + 1]>> ELSE Append(ToDigits(n \div 10), Digits[(n % 10) + 1])

\* String.prototype.padStart(len, '0')
RECURSIVE PadStart(_, _)
PadStart(s, len) == IF Len(s) >= len THEN s ELSE PadStart(<<"0">> \o s, len)

\* formatTimestamp with the minutes not reduced modulo 60
formatTimestampWholeMinutes(seconds) ==
    PadStart(ToDigits(seconds \div 3600), 2) \o <<":">>
        \o PadStart(ToDigits(seconds \div 60), 2) \o <<":">>
        \o PadStart(ToDigits(seconds % 60), 2)

\* lines 51-56, for seconds a non-negative integer (the divisions are exact in
\* a double up to 2^53)
formatTimestamp(seconds) ==
    PadStart(ToDigits(seconds \div 3600), 2) \o <<":">>
        \o PadStart(ToDigits((seconds \div 60) % 60), 2) \o <<":">>
        \o PadStart(ToDigits(seconds % 60), 2)

(***************************************************************************)
(* The request body.  A row is an object with three fields, or null (on    *)
(* which a property access throws).  The rows below are the shapes the     *)
(* validation loop tells apart.                                            *)
(***************************************************************************)
RowOf(u, s, e) == [obj |-> TRUE, url |-> u, start |-> s, end |-> e]

NullRow == [obj |-> FALSE, url |-> NotAString, start |-> NotAString, end |-> NotAString]

\* {url: "u", start: "5", end: "1:30"}
PlainRow == RowOf(Str(<<"u">>), Str(<<"5">>), Str(<<"1", ":", "3", "0">>))

\* {url: " ", start: "5", end: "1:30"}
BlankUrlRow == RowOf(Str(<<" ">>), Str(<<"5">>), Str(<<"1", ":", "3", "0">>))

\* {start: "5", end: "1:30"}
NoUrlRow == RowOf(NotAString, Str(<<"5">>), Str(<<"1", ":", "3", "0">>))

\* {url: "u", start: "abc", end: "1:30"}
BadTimeRow == RowOf(Str(<<"u">>), Str(<<"a", "b", "c">>), Str(<<"1", ":", "3", "0">>))

\* {url: "u", start: "10", end: "5"}
ReversedRow == RowOf(Str(<<"u">>), Str(<<"1", "0">>), Str(<<"5">>))

\* {url: "v", start: "1:00", end: "01:02:03"}
LaterRow ==
    RowOf(Str(<<"v">>), Str(<<"1", ":", "0", "0">>),
          Str(<<"0", "1", ":", "0", "2", ":", "0", "3">>))

\* the rows of the requests that run side by side
Rows == {PlainRow, NoUrlRow, ReversedRow, NullRow}

\* the rows of a request validated on its own
ValidationRows == Rows \cup {BlankUrlRow, BadTimeRow}

\* req.body: `segments` an array of at most MaxSegs of these rows, or no array
BodiesOf(rows) ==
    {[array |-> FALSE, segments |-> <<>>]}
    \cup {[array |-> TRUE, segments |-> b] : b \in UNION {[1..n -> rows] : n \in 0..MaxSegs}}

Bodies == BodiesOf(Rows)

\* the batches of a request that runs alone: valid rows that differ
BatchBodies == BodiesOf({PlainRow, LaterRow})

(***************************************************************************)
(* Events written to the response, and errors.                             *)
(***************************************************************************)
Event(type, tag, a, b, text, cmd) ==
    [type |-> type, tag |-> tag, a |-> a, b |-> b, text |-> text, cmd |-> cmd]

\* { type: 'status', stage, message }: the message's label is a/b
Status(stage, a, b) == Event("status", stage, a, b, <<>>, "")

\* { type: 'log', channel, message }
Log(channel, message) == Event("log", channel, 0, 0, message, "")

\* { type: 'error', message }: the message is an error's (tag, row, text, cmd)
ErrorEvent(err) == Event("error", err.tag, err.row, 0, err.text, err.cmd)

\* { type: 'done', downloadId, downloadUrl }
Done(jobId) == Event("done", "", jobId, 0, <<>>, "")

Err(tag, row, text, cmd) == [tag |-> tag, row |-> row, text |-> text, cmd |-> cmd]

NoErr == Err("", 0, <<>>, "")

IsTerminal(ev) == ev.type \in {"error", "done"}

(***************************************************************************)
(* State.                                                                  *)
(***************************************************************************)
VARIABLES
    now,            \* Date.now()
    nextDue,        \* when the setInterval timer is next due
    jobs,           \* the registry: job id -> [path, created, tempDir]
    pub,            \* publicDir: the clock reading of stitch-<t>.mp4 -> content
    tmp,            \* os.tmpdir(): temp directory -> (file name -> content)
    uuids,          \* crypto.randomUUID() calls so far
    chunks,         \* output chunks the children have emitted so far
    mkdtemps,       \* directories fs.mkdtempSync has made so far
    req,            \* the requests: handler position, locals, response
    rmErrors,       \* the fs.rmSync calls that threw in the latest eviction run
    codec           \* a use of the timestamp codec on its own: input and results

serverVars ==
    <<now, nextDue, jobs, pub, tmp, uuids, mkdtemps, chunks, req, rmErrors>>

vars == <<serverVars, codec>>

Reqs == 1..MaxReqs

\* req.body before the request has arrived
NoBody == [array |-> FALSE, segments |-> <<"none">>]

\* a child process of a request: what it runs (the handler's position at its
\* spawn and the segment's index) and how it went: "running", then the outcome
Call(kind, idx) == [kind |-> kind, idx |-> idx, code |-> "running"]

Idle ==
    [pc |-> "idle", parsed |-> <<>>, idx |-> 0, jobId |-> 0, tempDir |-> 0,
     segmentPaths |-> <<>>, directUrl |-> <<>>, cmd |-> "", stdout |-> <<>>,
     stderr |-> <<>>, events |-> <<>>, endedAt |-> -1, err |-> NoErr, rm |-> "none",
     body |-> NoBody, calls |-> <<>>]

\* the codec idle, the codec given a second count to format and parse back,
\* and the codec given a text to parse
NoCodec == [seconds |-> -1, text |-> <<>>, formatted |-> FALSE, parsed |-> Null,
            done |-> FALSE]

ToFormat(n) == [NoCodec EXCEPT !.seconds = n]

ToParse(text) == [NoCodec EXCEPT !.text = text, !.formatted = TRUE]

ServerInit ==
    /\ now = 0
    /\ nextDue = IntervalMs
    /\ jobs = <<>>
    /\ pub = <<>>
    /\ tmp = <<>>
    /\ uuids = 0
    /\ mkdtemps = 0
    /\ chunks = 0
    /\ req = [r \in Reqs |-> Idle]
    /\ rmErrors = [path |-> {}, dir |-> {}]

Init == ServerInit /\ codec = NoCodec

\* a function with key k set to v, and with key k removed
Put(f, k, v) == [x \in DOMAIN f \cup {k} |-> IF x = k THEN v ELSE f[x]]

Without(f, ks) == [x \in DOMAIN f \ ks |-> f[x]]

(***************************************************************************)
(* The response stream.                                                    *)
(***************************************************************************)
\* writeLine(res, payload)
writeLine(q, payload) == [q EXCEPT !.events = Append(@, payload)]

\* res.end()
End(q) == [q EXCEPT !.endedAt = Len(q.events), !.pc = "finished"]

\* runCommand(cmd, args, log) up to the spawn
Spawn(q, cmd, pc) ==
    [q EXCEPT !.pc = pc, !.cmd = cmd, !.stdout = <<>>, !.stderr = <<>>,
              !.calls = Append(@, Call(pc, q.idx))]

\* the child of q that runs has closed with code 0 ("zero"), closed with
\* another code ("nonzero"), or was not spawned ("error")
Exited(q, code) == [q EXCEPT !.calls[Len(q.calls)].code = code]

(***************************************************************************)
(* Validation, lines 84-104.                                               *)
(***************************************************************************)
RowUrl(seg) == IF seg.url.str THEN Trim(seg.url.s) ELSE <<>>

\* lines 92-94: url, start and end of a row
ParsedRow(seg) ==
    [url |-> RowUrl(seg), start |-> parseTimestamp(seg.start),
     end |-> parseTimestamp(seg.end)]

\* lines 95-102 on the row's url, start and end
RowCheck(p) ==
    IF p.url = <<>> THEN "URL required"
    ELSE IF p.start.null \/ p.end.null \/ ~Less(p.start, p.end) THEN "Invalid timestamps"
    ELSE "ok"

RowResult(seg) == IF ~seg.obj THEN "throw" ELSE RowCheck(ParsedRow(seg))

\* the loop's outcome on the rows' results: the first row that is not ok (0:
\* none), what it was, and `parsed`
Outcome(segments, results) ==
    LET bad == {i \in 1..Len(segments) : results[i] # "ok"}
        first == IF bad = {} THEN 0 ELSE CHOOSE i \in bad : \A j \in bad : i <= j
    IN  [row |-> first,
         result |-> IF first = 0 THEN "ok" ELSE results[first],
         parsed |-> IF first = 0 THEN [i \in 1..Len(segments) |-> ParsedRow(segments[i])]
                    ELSE <<>>]

\* Validate with the rows after the first left to the segment loop
ValidateFirstRow(segments) ==
    Outcome(SubSeq(segments, 1, IF Len(segments) > 0 THEN 1 ELSE 0),
            [i \in 1..(IF Len(segments) > 0 THEN 1 ELSE 0) |-> RowResult(segments[i])])

Validate(segments) ==
    Outcome(segments, [i \in 1..Len(segments) |-> RowResult(segments[i])])

\* timestamps a row may carry, for the validation of one row on its own
Stamps ==
    {<<"0">>, <<"5">>, <<"9", "0">>, <<"1", ":", "3", "0">>, <<" ", "7", " ">>,
     <<"0", "1", ":", "0", "2", ":", "0", "3">>, <<"0", "0", ":", "0", "0", ":", "1", "0">>,
     <<"2", ":", "0", "0">>, <<"1", ":", "0", ":", "0">>,
     <<"-", "1", ":", "3", "0">>, <<"0", ":", "1", ".", "5">>, <<":", "9">>,
     <<"1", "e", "1", ":", "0">>, <<"+", "3", ":", "0">>,
     <<"a", "b", "c">>, <<>>, <<"1", ":", "2", ":", "3", ":", "4">>, <<"-", "5">>,
     <<"1", ":", "x">>}

\* bodies of one row with any two of these timestamps
StampBodies ==
    {[array |-> TRUE, segments |-> <<RowOf(Str(<<"u">>), Str(s), Str(e))>>] :
        s \in Stamps, e \in Stamps}

\* the loop's outcome for every body
Validated ==
    [body \in BodiesOf(ValidationRows) \cup StampBodies \cup BatchBodies |->
        Validate(IF body.array THEN body.segments ELSE <<>>)]

(***************************************************************************)
(* POST /api/process, lines 78-120: from the request's arrival to the      *)
(* first await.  Requests are numbered in the order they arrive.           *)
(***************************************************************************)
\* the head of the segment loop, lines 118-120
\* StartSegment with the resolver not awaited: the cut is spawned beside it
StartSegmentUnawaited(q, idx) ==
    Spawn(Spawn(writeLine([q EXCEPT !.idx = idx],
                          Status("resolving", idx + 1, Len(q.parsed))),
                "yt-dlp", "resolve"),
          "ffmpeg", "cut")

\* StartSegment announcing the download before the resolver has run
StartSegmentDownloading(q, idx) ==
    Spawn(writeLine([q EXCEPT !.idx = idx],
                    Status("downloading", idx + 1, Len(q.parsed))),
          "yt-dlp", "resolve")

StartSegment(q, idx) ==
    Spawn(writeLine([q EXCEPT !.idx = idx],
                    Status("resolving", idx + 1, Len(q.parsed))),
          "yt-dlp", "resolve")

Receive(r, body, mkdtempThrows) ==
    LET segments == IF body.array THEN body.segments ELSE <<>>
        v == Validated[body]
        q == [req[r] EXCEPT !.body = body]
    IN  /\ req[r].pc = "idle"
        /\ IF r = 1 THEN TRUE ELSE req[r - 1].pc # "idle"
        /\ UNCHANGED <<chunks, now, nextDue, jobs, pub, rmErrors, codec>>
        /\ IF segments = <<>> THEN
               /\ req' = [req EXCEPT ![r] =
                      End(writeLine(q, ErrorEvent(Err("No segments provided", 0, <<>>, ""))))]
               /\ UNCHANGED <<chunks, tmp, uuids, mkdtemps>>
           ELSE IF v.result = "throw" THEN
               \* seg.url of null: the handler's promise rejects outside the try
               /\ req' = [req EXCEPT ![r] = [q EXCEPT !.pc = "rejected"]]
               /\ UNCHANGED <<chunks, tmp, uuids, mkdtemps>>
           ELSE IF v.result # "ok" THEN
               /\ req' = [req EXCEPT ![r] =
                      End(writeLine(q, ErrorEvent(Err(v.result, v.row, <<>>, ""))))]
               /\ UNCHANGED <<chunks, tmp, uuids, mkdtemps>>
           ELSE IF mkdtempThrows THEN
               \* fs.mkdtempSync throws outside the try
               /\ uuids' = uuids + 1
               /\ req' = [req EXCEPT ![r] =
                      [q EXCEPT !.pc = "rejected", !.parsed = v.parsed,
                                !.jobId = uuids + 1]]
               /\ UNCHANGED <<chunks, tmp, mkdtemps>>
           ELSE
               /\ uuids' = uuids + 1
               /\ mkdtemps' = mkdtemps + 1
               /\ tmp' = Put(tmp, mkdtemps + 1, <<>>)
               /\ req' = [req EXCEPT ![r] =
                      StartSegment(
                          writeLine([q EXCEPT !.parsed = v.parsed,
                                              !.jobId = uuids + 1,
                                              !.tempDir = mkdtemps + 1],
                                    Status("starting", 0, 0)),
                          0)]

(***************************************************************************)
(* runCommand, lines 58-76: the child process of a request.                *)
(***************************************************************************)
Awaiting(q) == q.pc \in {"resolve", "cut", "concat"}

\* what the children write.  yt-dlp -g prints the locator of its url on stdout,
\* in one chunk; any child may write a chunk on stderr, and ffmpeg one on stdout.
Locator(url) == <<"h">> \o url \o <<"\n">>

StdoutChunk == <<"m", "\n">>

StderrChunk == <<"E">>

IsLocator(q, isErr) == q.cmd = "yt-dlp" /\ ~isErr

Chunk(q, isErr) ==
    IF isErr THEN StderrChunk
    ELSE IF q.cmd = "yt-dlp" THEN Locator(q.parsed[q.idx + 1].url)
    ELSE StdoutChunk

\* a child emits data while it runs: from its spawn to its close (the model
\* explores the output beside the locators within the first timer period)
CanEmit(q, isErr) ==
    /\ Awaiting(q)
    /\ IF IsLocator(q, isErr) THEN q.stdout = <<>>
       ELSE chunks < MaxChunks /\ now < IntervalMs

\* child.stdout.on('data') and child.stderr.on('data')
OnData(r, isErr) ==
    LET q == req[r]
    IN  /\ CanEmit(q, isErr)
        /\ req' = [req EXCEPT ![r] =
               writeLine(
                   IF isErr THEN [q EXCEPT !.stderr = @ \o Chunk(q, isErr)]
                   ELSE [q EXCEPT !.stdout = @ \o Chunk(q, isErr)],
                   Log(IF isErr THEN "stderr" ELSE "stdout", Chunk(q, isErr)))]
        /\ chunks' = IF IsLocator(q, isErr) THEN chunks ELSE chunks + 1
        /\ UNCHANGED <<now, nextDue, jobs, pub, tmp, uuids, mkdtemps, rmErrors, codec>>

\* CloseError with the captured stderr dropped
CloseErrorGeneric(q) == Err("Command failed", 0, <<>>, q.cmd)

\* the rejection of a close with a nonzero code, line 74
CloseError(q) ==
    IF q.stderr # <<>> THEN Err("stderr", 0, q.stderr, "")
    ELSE Err("Command failed", 0, <<>>, q.cmd)

\* the rejection of a failed spawn, line 71
SpawnError(q) == Err("spawn", 0, <<>>, q.cmd)

(***************************************************************************)
(* The catch block and the end of the handler, lines 142-149.              *)
(***************************************************************************)
\* err.message || 'Processing failed'
MessageOf(err) ==
    IF err.tag = "stderr" /\ err.text = <<>> THEN Err("Processing failed", 0, <<>>, "")
    ELSE err

\* Caught with the removal's error not swallowed: it leaves the handler, and
\* res.end() is not reached
CaughtRmEscapes(q, err, rmThrows) ==
    IF rmThrows
    THEN [writeLine(q, ErrorEvent(MessageOf(err)))
             EXCEPT !.err = err, !.rm = "threw", !.pc = "rejected"]
    ELSE End([writeLine(q, ErrorEvent(MessageOf(err))) EXCEPT !.err = err, !.rm = "ok"])

\* the request after the catch block and res.end(): err is what was thrown, rm
\* how fs.rmSync(tempDir) went
Caught(q, err, rmThrows) ==
    End([writeLine(q, ErrorEvent(MessageOf(err)))
            EXCEPT !.err = err, !.rm = IF rmThrows THEN "threw" ELSE "ok"])

\* Removed with the removal applied to os.tmpdir() itself
RemovedEvery(t, q, rmThrows) == IF rmThrows THEN t ELSE <<>>

\* os.tmpdir() t after fs.rmSync(tempDir, {recursive, force}) of the catch block
Removed(t, q, rmThrows) == IF rmThrows THEN t ELSE Without(t, {q.tempDir})

Catch(r, err, rmThrows) ==
    /\ req' = [req EXCEPT ![r] =
           Caught(Exited(req[r], IF err.tag = "spawn" THEN "error" ELSE "nonzero"),
                  err, rmThrows)]
    /\ tmp' = Removed(tmp, req[r], rmThrows)
    /\ UNCHANGED <<chunks, now, nextDue, jobs, pub, uuids, mkdtemps, rmErrors, codec>>

\* child.on('error'): the spawn failed, no process ran
OnSpawnError(r, rmThrows) ==
    /\ Awaiting(req[r])
    /\ req[r].stdout = <<>> /\ req[r].stderr = <<>>
    /\ Catch(r, SpawnError(req[r]), rmThrows)

\* child.on('close') with a nonzero code
OnCloseFailed(r, rmThrows) ==
    /\ Awaiting(req[r])
    /\ Catch(r, CloseError(req[r]), rmThrows)

(***************************************************************************)
(* child.on('close') with code 0, and the handler up to its next await.    *)
(***************************************************************************)
\* SegmentName without the index
SegmentNameFixed(idx) == [kind |-> "segment", idx |-> 0]

\* `segment-${idx}.mp4`
SegmentName(idx) == [kind |-> "segment", idx |-> idx]

ListName == [kind |-> "concat-list.txt", idx |-> 0]

OutputName == [kind |-> "stitched.mp4", idx |-> 0]

Path(dir, name) == [dir |-> dir, name |-> name]

Exists(p) == p.dir \in DOMAIN tmp /\ p.name \in DOMAIN tmp[p.dir]

\* os.tmpdir() with file p written, when its directory exists
WriteFile(t, p, content) ==
    IF p.dir \in DOMAIN t THEN [t EXCEPT ![p.dir] = Put(@, p.name, content)] ELSE t

\* yt-dlp closed with 0, its locator printed: lines 120-124
ResolveClosed(r) ==
    LET q == req[r]
    IN  /\ q.pc = "resolve"
        /\ q.stdout # <<>>
        /\ req' = [req EXCEPT ![r] =
               Spawn(writeLine([Exited(q, "zero") EXCEPT !.directUrl = Trim(q.stdout)],
                               Status("downloading", q.idx + 1, Len(q.parsed))),
                     "ffmpeg", "cut")]
        /\ UNCHANGED <<chunks, now, nextDue, jobs, pub, tmp, uuids, mkdtemps, rmErrors, codec>>

\* the clip ffmpeg cuts: -ss start -i directUrl -t (end - start)
Clip(q) ==
    LET seg == q.parsed[q.idx + 1]
    IN  [url |-> q.directUrl, ss |-> [num |-> seg.start.num, den |-> seg.start.den],
         t |-> Minus(seg.end, seg.start)]

\* ffmpeg (cut) closed with 0: lines 124-134
CutClosed(r, writeThrows, rmThrows) ==
    LET q == req[r]
        segmentPath == Path(q.tempDir, SegmentName(q.idx))
        cut == WriteFile(tmp, segmentPath, Clip(q))
        q1 == writeLine([Exited(q, "zero") EXCEPT !.segmentPaths = Append(@, segmentPath)],
                        Status("downloaded", q.idx + 1, Len(q.parsed)))
        q2 == writeLine(q1, Status("stitching", 0, 0))
    IN  /\ q.pc = "cut"
        /\ q.tempDir \in DOMAIN tmp      \* ffmpeg wrote segmentPath
        /\ UNCHANGED <<chunks, now, nextDue, jobs, pub, uuids, mkdtemps, rmErrors, codec>>
        /\ IF q.idx + 1 < Len(q.parsed) THEN
               /\ req' = [req EXCEPT ![r] = StartSegment(q1, q.idx + 1)]
               /\ tmp' = cut
           ELSE IF writeThrows THEN
               \* fs.writeFileSync(listPath, listContent) throws
               /\ req' = [req EXCEPT ![r] =
                      Caught(q2, Err("writeFileSync", 0, <<>>, ""), rmThrows)]
               /\ tmp' = Removed(cut, q, rmThrows)
           ELSE
               /\ req' = [req EXCEPT ![r] = Spawn(q2, "ffmpeg", "concat")]
               /\ tmp' = WriteFile(cut, Path(q.tempDir, ListName), q1.segmentPaths)

\* what ffmpeg (concat) writes: the clips the manifest lists, in its order
Stitched(q) ==
    LET list == tmp[q.tempDir][ListName]
    IN  [i \in 1..Len(list) |-> tmp[list[i].dir][list[i].name]]

\* ffmpeg (concat) can close with 0: the manifest and every file it lists exist
CanStitch(q) ==
    /\ Exists(Path(q.tempDir, ListName))
    /\ \A i \in 1..Len(tmp[q.tempDir][ListName]) : Exists(tmp[q.tempDir][ListName][i])

\* Complete with the temp directory removed once the copy is made
CompleteRemovingTemp(r, dt) ==
    LET q == Exited(req[r], "zero")
        finalPath == now
    IN  /\ now' = now + dt
        /\ tmp' = Without(tmp, {q.tempDir})
        /\ pub' = Put(pub, finalPath, Stitched(q))
        /\ jobs' = Put(jobs, q.jobId,
                       [path |-> finalPath, created |-> now + dt, tempDir |-> q.tempDir])
        /\ req' = [req EXCEPT ![r] = End(writeLine(q, Done(q.jobId)))]
        /\ UNCHANGED <<chunks, nextDue, uuids, mkdtemps, rmErrors, codec>>

\* lines 136-141 and 149: the copy succeeds while the clock advances by dt
Complete(r, dt) ==
    LET q == Exited(req[r], "zero")
        finalPath == now
    IN  /\ now' = now + dt
        /\ tmp' = WriteFile(tmp, Path(q.tempDir, OutputName), Stitched(q))
        /\ pub' = Put(pub, finalPath, Stitched(q))
        /\ jobs' = Put(jobs, q.jobId,
                       [path |-> finalPath, created |-> now + dt, tempDir |-> q.tempDir])
        /\ req' = [req EXCEPT ![r] = End(writeLine(q, Done(q.jobId)))]
        /\ UNCHANGED <<chunks, nextDue, uuids, mkdtemps, rmErrors, codec>>

\* CopyFailed with jobs.set placed before the copy
CopyFailedAfterSet(r, rmThrows) ==
    LET q == Exited(req[r], "zero")
    IN  /\ req' = [req EXCEPT ![r] = Caught(q, Err("copyFileSync", 0, <<>>, ""), rmThrows)]
        /\ tmp' = Removed(WriteFile(tmp, Path(q.tempDir, OutputName), Stitched(q)),
                          q, rmThrows)
        /\ jobs' = Put(jobs, q.jobId, [path |-> now, created |-> now, tempDir |-> q.tempDir])
        /\ UNCHANGED <<chunks, now, nextDue, pub, uuids, mkdtemps, rmErrors, codec>>

\* lines 136-138 and 142-149: fs.copyFileSync throws
CopyFailed(r, rmThrows) ==
    LET q == Exited(req[r], "zero")
    IN  /\ req' = [req EXCEPT ![r] = Caught(q, Err("copyFileSync", 0, <<>>, ""), rmThrows)]
        /\ tmp' = Removed(WriteFile(tmp, Path(q.tempDir, OutputName), Stitched(q)),
                          q, rmThrows)
        /\ UNCHANGED <<chunks, now, nextDue, jobs, pub, uuids, mkdtemps, rmErrors, codec>>

\* ffmpeg (concat) closed with 0: lines 134-149
ConcatClosed(r, copyThrows, dt, rmThrows) ==
    /\ req[r].pc = "concat"
    /\ CanStitch(req[r])
    /\ dt = 0 \/ (~copyThrows /\ now % IntervalMs < MaxTicks)
    /\ IF copyThrows THEN CopyFailed(r, rmThrows) ELSE Complete(r, dt)

(***************************************************************************)
(* cleanupOldJobs on its timer, lines 22-34.                               *)
(***************************************************************************)
\* the entries the loop's test selects
Expired == {id \in DOMAIN jobs : jobs[id].created < now - RetentionMs}

\* Deleted with jobs.delete(id) inside the try block, after the two rmSync
DeletedInsideTry(pathErr, dirErr) == Expired \ (pathErr \cup dirErr)

\* the entries the run deletes from the registry, whichever rmSync threw
Deleted(pathErr, dirErr) == Expired

\* the timer's callback.  pathErr: the entries whose fs.rmSync(info.path)
\* throws; dirErr: those whose fs.rmSync(info.tempDir) throws
cleanupOldJobs(pathErr, dirErr) ==
    /\ now >= nextDue
    /\ pathErr \subseteq Expired
    /\ dirErr \subseteq Expired \ pathErr
    /\ pub' = Without(pub, {jobs[id].path : id \in Expired \ pathErr})
    /\ tmp' = Without(tmp, {jobs[id].tempDir : id \in Expired \ (pathErr \cup dirErr)})
    /\ jobs' = Without(jobs, Deleted(pathErr, dirErr))
    /\ nextDue' = now + IntervalMs
    /\ rmErrors' = [path |-> pathErr, dir |-> dirErr]
    /\ UNCHANGED <<chunks, now, uuids, mkdtemps, req, codec>>

\* the clock: a millisecond passes, or a timer period; a due timer runs before
\* the clock moves on (the model explores the runs of several periods among
\* those without child output)
Advance(d) ==
    /\ now < nextDue
    /\ \/ d = 1 /\ now % IntervalMs < MaxTicks
       \/ d = IntervalMs /\ now \div IntervalMs < MaxJumps /\ chunks = 0
    /\ now' = now + d
    /\ UNCHANGED <<chunks, nextDue, jobs, pub, tmp, uuids, mkdtemps, req, rmErrors, codec>>

(***************************************************************************)
(* GET /api/download/:id, lines 152-158.                                   *)
(***************************************************************************)
Answer(id, status, body) == [id |-> id, status |-> status, body |-> body]

\* DownloadAnswer with the retention window tested on lookup
DownloadAnswerByAge(id) ==
    IF id \notin DOMAIN jobs THEN Answer(id, 404, <<>>)
    ELSE IF now - jobs[id].created > RetentionMs THEN Answer(id, 404, <<>>)
    ELSE IF jobs[id].path \in DOMAIN pub THEN Answer(id, 200, pub[jobs[id].path])
    ELSE Answer(id, 500, <<>>)

\* jobs.get(id), then res.download(info.path): 500 when the file is gone
DownloadAnswer(id) ==
    IF id \notin DOMAIN jobs THEN Answer(id, 404, <<>>)
    ELSE IF jobs[id].path \in DOMAIN pub THEN Answer(id, 200, pub[jobs[id].path])
    ELSE Answer(id, 500, <<>>)

\* the handler reads the registry and the file and writes nothing
Download(id) ==
    /\ DownloadAnswer(id).status \in {200, 404, 500}
    /\ UNCHANGED vars

\* the ids a client asks for: 0 is an id randomUUID never returned
DownloadIds == 0..MaxReqs

(***************************************************************************)
(* The specification.                                                      *)
(***************************************************************************)
Next ==
    \/ \E r \in Reqs, body \in Bodies, mkdtempThrows \in BOOLEAN :
           Receive(r, body, mkdtempThrows)
    \/ \E r \in Reqs, isErr \in BOOLEAN : OnData(r, isErr)
    \/ \E r \in Reqs, rmThrows \in BOOLEAN : OnSpawnError(r, rmThrows)
    \/ \E r \in Reqs, rmThrows \in BOOLEAN : OnCloseFailed(r, rmThrows)
    \/ \E r \in Reqs : ResolveClosed(r)
    \/ \E r \in Reqs, writeThrows \in BOOLEAN, rmThrows \in BOOLEAN :
           CutClosed(r, writeThrows, rmThrows)
    \/ \E r \in Reqs, copyThrows \in BOOLEAN, dt \in {0, 1}, rmThrows \in BOOLEAN :
           ConcatClosed(r, copyThrows, dt, rmThrows)
    \/ \E pathErr \in SUBSET DOMAIN jobs, dirErr \in SUBSET DOMAIN jobs :
           cleanupOldJobs(pathErr, dirErr)
    \/ \E d \in {1, IntervalMs} : Advance(d)
    \/ \E id \in DownloadIds : Download(id)

Spec == Init /\ [][Next]_vars

\* the arrival of one request: its rows of any shape, or its single row with
\* any two timestamps
NextStamps ==
    \E body \in BodiesOf(ValidationRows) \cup StampBodies, mkdtempThrows \in BOOLEAN :
        Receive(1, body, mkdtempThrows)

StampSpec == Init /\ [][NextStamps]_vars

\* one request on its own, its batch of rows that differ
NextBatch ==
    \/ \E body \in BatchBodies, mkdtempThrows \in BOOLEAN : Receive(1, body, mkdtempThrows)
    \/ \E isErr \in BOOLEAN : OnData(1, isErr)
    \/ \E rmThrows \in BOOLEAN : OnSpawnError(1, rmThrows)
    \/ \E rmThrows \in BOOLEAN : OnCloseFailed(1, rmThrows)
    \/ ResolveClosed(1)
    \/ \E writeThrows \in BOOLEAN, rmThrows \in BOOLEAN : CutClosed(1, writeThrows, rmThrows)
    \/ \E copyThrows \in BOOLEAN, dt \in {0, 1}, rmThrows \in BOOLEAN :
           ConcatClosed(1, copyThrows, dt, rmThrows)

BatchSpec == Init /\ [][NextBatch]_vars

(***************************************************************************)
(* The timestamp codec on its own: formatTimestamp of a second count and   *)
(* parseTimestamp of the text, or parseTimestamp of a given text.          *)
(***************************************************************************)
\* the second counts formatted: every value of the seconds field and of the
\* first minutes, and values around the carries into the minutes, the hours,
\* and the third digit of the hours
Seconds ==
    (0..MaxSmall) \cup {599, 600, 3599, 3600, 3661, 35999, 36000, 86399, 86400,
                        359999, 360000, 360001, 3599999, 3600000, 3600059}

CodecInit ==
    /\ ServerInit
    /\ codec \in {ToFormat(n) : n \in Seconds} \cup {ToParse(text) : text \in Stamps}

Format ==
    /\ codec.seconds >= 0 /\ ~codec.formatted
    /\ codec' = [codec EXCEPT !.text = formatTimestamp(codec.seconds), !.formatted = TRUE]
    /\ UNCHANGED serverVars

Parse ==
    /\ codec.formatted /\ ~codec.done
    /\ codec' = [codec EXCEPT !.parsed = parseTimestamp(Str(codec.text)), !.done = TRUE]
    /\ UNCHANGED serverVars

CodecNext == Format \/ Parse

CodecSpec == CodecInit /\ [][CodecNext]_vars

(***************************************************************************)
(* Properties.                                                             *)
(***************************************************************************)
Terminals(q) == {i \in 1..Len(q.events) : IsTerminal(q.events[i])}

HasEvent(q, type) == \E i \in 1..Len(q.events) : q.events[i].type = type

\* the handler's promise has settled: no code of the request runs any more
Settled(q) == q.pc \in {"finished", "rejected"}

Ended(q) == q.endedAt # -1

\* C1: every request's event sequence holds exactly one terminal event, the last
\* one written, and nothing is written after it or after the stream's end;
\* stated of the requests whose handler has settled, whose sequence is complete.
C1_ExactlyOneTerminalLast ==
    \A r \in Reqs :
        Settled(req[r]) =>
            /\ Terminals(req[r]) = {Len(req[r].events)}
            /\ Len(req[r].events) > 0
            /\ Ended(req[r]) => req[r].endedAt = Len(req[r].events)

\* The part of C1 that holds: at most one terminal event, which is the last
\* event written, and an ended stream holds exactly one and nothing after it.
TerminalIsLast ==
    \A r \in Reqs :
        /\ Terminals(req[r]) \subseteq {Len(req[r].events)}
        /\ Ended(req[r]) =>
               /\ req[r].endedAt = Len(req[r].events)
               /\ Terminals(req[r]) = {Len(req[r].events)}
               /\ Len(req[r].events) > 0

\* C2: every request ends its response stream after a terminal event, on every
\* path through the handler; stated of the requests whose handler has settled.
C2_SettledHandlerEndedStream ==
    \A r \in Reqs :
        Settled(req[r]) => Ended(req[r]) /\ Terminals(req[r]) # {}

\* C3: the job id of a request that wrote an error event is not in the registry
\* and GET /api/download answers it 404; a registered job belongs to a request
\* that wrote `downloaded` for every segment, `stitching` and `done`.
C3_FailedNeverRegistered ==
    /\ \A r \in Reqs :
           HasEvent(req[r], "error") =>
               /\ req[r].jobId \notin DOMAIN jobs
               /\ DownloadAnswer(req[r].jobId).status = 404
    /\ \A id \in DOMAIN jobs :
           \E r \in Reqs :
               /\ req[r].jobId = id
               /\ HasEvent(req[r], "done")
               /\ ~HasEvent(req[r], "error")
               /\ Cardinality({i \in 1..Len(req[r].events) :
                                   req[r].events[i].tag = "downloaded"})
                      = Len(req[r].parsed)
               /\ \E i \in 1..Len(req[r].events) : req[r].events[i].tag = "stitching"

\* a request failed at the copy, after its job id and temp directory were made
C3_Witness ==
    \E r \in Reqs :
        /\ req[r].err.tag = "copyFileSync"
        /\ req[r].jobId # 0
        /\ HasEvent(req[r], "error")
        /\ DownloadAnswer(req[r].jobId).status = 404

\* C4: while the job of a request that wrote `done` is in the registry, GET
\* /api/download of its id returns the merged output that request's concat
\* wrote, whatever other requests do.
C4_DownloadIsOwnOutput ==
    \A r \in Reqs :
        (HasEvent(req[r], "done") /\ req[r].jobId \in DOMAIN jobs) =>
            /\ DownloadAnswer(req[r].jobId).status = 200
            /\ Exists(Path(req[r].tempDir, OutputName))
            /\ DownloadAnswer(req[r].jobId).body = tmp[req[r].tempDir][OutputName]

\* C5: any two registry entries have different `path` values.
C5_DistinctFinalPaths ==
    \A a \in DOMAIN jobs, b \in DOMAIN jobs : a # b => jobs[a].path # jobs[b].path

\* C6 as claimed: once a request has written `done` and ended its stream, its
\* temp directory no longer exists.
C6_TempRemovedAfterDone ==
    \A r \in Reqs :
        (HasEvent(req[r], "done") /\ Ended(req[r])) => req[r].tempDir \notin DOMAIN tmp

\* C6 amended: the temp directory is removed after a failure (when the removal
\* succeeds) but not after success: while the job of a request that wrote `done`
\* is in the registry its temp directory exists, with the merged output in it,
\* beside the copy in the artifact directory made before `done`.
C6_TempKeptUntilEviction ==
    \A r \in Reqs :
        /\ (HasEvent(req[r], "done") /\ req[r].jobId \in DOMAIN jobs) =>
               Exists(Path(req[r].tempDir, OutputName))
        /\ (req[r].rm = "ok") => req[r].tempDir \notin DOMAIN tmp

\* a request has written `done` and ended, and its temp directory is there
C6_Witness ==
    \E r \in Reqs :
        /\ HasEvent(req[r], "done") /\ Ended(req[r])
        /\ req[r].jobId \in DOMAIN jobs
        /\ Exists(Path(req[r].tempDir, OutputName))
        /\ jobs[req[r].jobId].path \in DOMAIN pub

\* C7: a request that failed after its temp directory was made wrote, last, the
\* error event carrying the failure's message, tried to remove its temp
\* directory (which is gone when the removal went through) and ended its
\* stream, also when the removal threw; no such request leaves the handler
\* without ending the stream.
C7_FailureReportedAndCleaned ==
    \A r \in Reqs :
        req[r].tempDir # 0 =>
            /\ req[r].pc # "rejected"
            /\ (Settled(req[r]) /\ ~HasEvent(req[r], "done")) =>
                   /\ req[r].err.tag \in {"spawn", "stderr", "Command failed",
                                          "writeFileSync", "copyFileSync"}
                   /\ req[r].events[Len(req[r].events)] = ErrorEvent(req[r].err)
                   /\ req[r].rm \in {"ok", "threw"}
                   /\ req[r].rm = "ok" => req[r].tempDir \notin DOMAIN tmp
                   /\ req[r].endedAt = Len(req[r].events)
                   /\ req[r].jobId \notin DOMAIN jobs

\* the removal of a failed request's temp directory threw, the directory is
\* still there, and the stream has ended after the error event
C7_Witness ==
    \E r \in Reqs :
        /\ req[r].rm = "threw"
        /\ req[r].tempDir \in DOMAIN tmp
        /\ HasEvent(req[r], "error")
        /\ Ended(req[r])

\* C8 as claimed: GET /api/download answers 404 with no file for an id that is
\* not in the registry and for a registered job older than the retention window.
C8_ExpiredNotFound ==
    \A id \in DownloadIds :
        (IF id \in DOMAIN jobs THEN now - jobs[id].created > RetentionMs ELSE TRUE) =>
            /\ DownloadAnswer(id).status = 404
            /\ DownloadAnswer(id).body = <<>>

\* C8 amended: an id is answered 404, with no file, from the start; it stops
\* being answered 404 only in the step in which its request writes `done`, and
\* is answered 404 again only by a run of cleanupOldJobs that finds its entry
\* older than the retention window: the passing of time alone changes no answer
\* to 404.
C8_NotFoundUntilDoneAndOnceEvicted ==
    [][\A id \in DownloadIds :
           /\ DownloadAnswer(id)'.status = 404 => DownloadAnswer(id)'.body = <<>>
           /\ (DownloadAnswer(id).status = 404 /\ DownloadAnswer(id)'.status # 404) =>
                  \E r \in Reqs :
                      /\ req'[r].jobId = id
                      /\ ~HasEvent(req[r], "done")
                      /\ HasEvent(req'[r], "done")
           /\ (DownloadAnswer(id).status # 404 /\ DownloadAnswer(id)'.status = 404) =>
                  /\ nextDue' # nextDue
                  /\ now - jobs[id].created > RetentionMs]_vars

\* a registered job is older than the retention window and GET /api/download
\* still answers its id with the file
C8_Witness ==
    \E r \in Reqs :
        /\ HasEvent(req[r], "done")
        /\ req[r].jobId \in DOMAIN jobs
        /\ now - jobs[req[r].jobId].created > RetentionMs
        /\ DownloadAnswer(req[r].jobId).status = 200

\* C9: a run of cleanupOldJobs leaves no entry created before now - 1 hour and
\* keeps every other entry; the artifact of each entry it removed is gone
\* unless its removal threw, and so is the temp directory unless one of the
\* two removals threw; the entry is removed whichever threw.
C9_EvictionRemovesExpired ==
    [][nextDue' # nextDue =>
           /\ \A id \in DOMAIN jobs' : jobs'[id].created >= now' - RetentionMs
           /\ \A id \in DOMAIN jobs :
                  IF jobs[id].created < now - RetentionMs
                  THEN /\ id \notin DOMAIN jobs'
                       /\ id \notin rmErrors'.path => jobs[id].path \notin DOMAIN pub'
                       /\ id \notin (rmErrors'.path \cup rmErrors'.dir) =>
                              jobs[id].tempDir \notin DOMAIN tmp'
                  ELSE id \in DOMAIN jobs' /\ jobs'[id] = jobs[id]]_vars

\* the latest run evicted a job although the removal of its artifact threw: the
\* artifact is still there and the entry is gone
C9_Witness ==
    \E r \in Reqs :
        /\ HasEvent(req[r], "done")
        /\ req[r].jobId \in rmErrors.path
        /\ req[r].jobId \notin DOMAIN jobs
        /\ pub # <<>>

\* C10: every segment that passed validation has integer start and end with
\* 0 <= start < end.
C10_ValidatedRangesAreNatural ==
    \A r \in Reqs :
        \A i \in 1..Len(req[r].parsed) :
            /\ IsInteger(req[r].parsed[i].start)
            /\ IsInteger(req[r].parsed[i].end)
            /\ 0 <= req[r].parsed[i].start.num
            /\ Less(req[r].parsed[i].start, req[r].parsed[i].end)

\* a row the validation loop is to reject: not an object, its url missing or
\* blank, its start or end one that parseTimestamp maps to null, or start >= end
RowIsInvalid(seg) ==
    \/ ~seg.obj
    \/ ~seg.url.str
    \/ Trim(seg.url.s) = <<>>
    \/ parseTimestamp(seg.start).null
    \/ parseTimestamp(seg.end).null
    \/ ~Less(parseTimestamp(seg.start), parseTimestamp(seg.end))

InvalidRows(body) == {i \in 1..Len(body.segments) : RowIsInvalid(body.segments[i])}

Lowest(S) == CHOOSE i \in S : \A j \in S : i <= j

\* the batch is empty or missing
NoBatch(body) == ~body.array \/ body.segments = <<>>

\* C11: a request whose batch holds an invalid row wrote exactly one event, an
\* error naming the 1-based index of the lowest-indexed invalid row; a request
\* with an empty or missing batch wrote the single error 'No segments provided'.
C11_FirstInvalidRowReported ==
    \A r \in Reqs :
        req[r].pc # "idle" =>
            IF NoBatch(req[r].body)
            THEN req[r].events = <<ErrorEvent(Err("No segments provided", 0, <<>>, ""))>>
            ELSE InvalidRows(req[r].body) # {} =>
                     /\ Len(req[r].events) = 1
                     /\ req[r].events[1].type = "error"
                     /\ req[r].events[1].tag \in {"URL required", "Invalid timestamps"}
                     /\ req[r].events[1].a = Lowest(InvalidRows(req[r].body))

\* the request's batch is rejected: empty, missing, or with an invalid row
BodyRejected(body) == NoBatch(body) \/ InvalidRows(body) # {}

RejectedBodies ==
    {body \in BodiesOf(ValidationRows) \cup StampBodies : BodyRejected(body)}

\* C12: a request whose batch is rejected spawns no process, allocates no job
\* id and no temp directory and writes no status or log event, and its arrival
\* leaves the registry, the artifact directory and the temp directories as
\* they were: an invalid row at any index prevents every invocation.
C12_RejectedRequestHasNoEffect ==
    [][\A r \in Reqs :
           (req'[r].pc # "idle" /\ req'[r].body \in RejectedBodies) =>
               /\ req'[r].calls = <<>>
               /\ req'[r].jobId = 0 /\ req'[r].tempDir = 0
               /\ \A i \in 1..Len(req'[r].events) :
                      req'[r].events[i].type \notin {"status", "log"}
               /\ req[r].pc = "idle" =>
                      /\ jobs' = jobs /\ pub' = pub /\ tmp' = tmp
                      /\ uuids' = uuids /\ mkdtemps' = mkdtemps]_vars

\* a request whose second row is invalid was rejected while another request's
\* temp directory held a clip
C12_Witness ==
    \E r \in Reqs, o \in Reqs :
        /\ req[r].pc = "finished"
        /\ ~NoBatch(req[r].body) /\ InvalidRows(req[r].body) = {2}
        /\ req[r].calls = <<>>
        /\ req[o].pc = "concat"
        /\ Exists(Path(req[o].tempDir, SegmentName(0)))

\* C13: parseTimestamp(formatTimestamp(n)) is n for every second count n
\* formatted and parsed back, those of three-digit hours included.
C13_FormatThenParseIsIdentity ==
    (codec.seconds >= 0 /\ codec.done) =>
        /\ ~codec.parsed.null
        /\ codec.parsed.num = codec.seconds * codec.parsed.den

\* 360000 seconds were formatted as 100:00:00 and parsed back
C13_Witness ==
    /\ codec.seconds = 360000
    /\ codec.text = <<"1", "0", "0", ":", "0", "0", ":", "0", "0">>
    /\ codec.done
    /\ codec.parsed.num = 360000

\* the codec grammar: a group is a non-empty string of digits
IsGroup(g) == g # <<>> /\ \A i \in 1..Len(g) : IsDigit(g[i])

GroupVal(g) == Num(DigitsVal(g), 1)

\* what the grammar assigns to groups: seconds for MM:SS and HH:MM:SS of
\* non-negative integers, null otherwise
GrammarOfGroups(groups) ==
    IF \E i \in 1..Len(groups) : ~IsGroup(groups[i]) THEN Null
    ELSE IF Len(groups) = 1 THEN Value(GroupVal(groups[1]))
    ELSE IF Len(groups) = 2
    THEN Value(Add(Times(GroupVal(groups[1]), 60), GroupVal(groups[2])))
    ELSE IF Len(groups) = 3
    THEN Value(Add(Add(Times(GroupVal(groups[1]), 3600), Times(GroupVal(groups[2]), 60)),
                   GroupVal(groups[3])))
    ELSE Null

\* what the grammar assigns to a text, the white space around it aside
GrammarOf(text) == GrammarOfGroups(Split(Trim(text), ":"))

\* C14: parseTimestamp returns what the codec grammar assigns to the text: the
\* second count of digits, MM:SS and HH:MM:SS, and null for every other text.
C14_ParseAgreesWithGrammar ==
    codec.done =>
        /\ codec.parsed.null = GrammarOf(codec.text).null
        /\ ~codec.parsed.null =>
               codec.parsed.num * GrammarOf(codec.text).den
                   = GrammarOf(codec.text).num * codec.parsed.den

\* C15: after every step any two requests in flight hold distinct job ids and
\* distinct temp directories, the temp directory of a request in flight exists,
\* and a step that is not a step of that request leaves the directory and the
\* files in it as they were.
C15_TempDirsAreIsolated ==
    [][/\ \A a \in Reqs, b \in Reqs :
              (a # b /\ Awaiting(req'[a]) /\ Awaiting(req'[b])) =>
                  /\ req'[a].jobId # req'[b].jobId
                  /\ req'[a].tempDir # req'[b].tempDir
       /\ \A r \in Reqs :
              /\ Awaiting(req'[r]) => req'[r].tempDir \in DOMAIN tmp'
              /\ (Awaiting(req[r]) /\ req'[r] = req[r] /\ req[r].tempDir \in DOMAIN tmp) =>
                     tmp'[req[r].tempDir] = tmp[req[r].tempDir]]_vars

\* a request failed and removed its temp directory while another request was in
\* flight, whose temp directory still holds its clip
C15_Witness ==
    \E r \in Reqs, o \in Reqs :
        /\ req[r].rm = "ok"
        /\ req[r].segmentPaths # <<>>
        /\ Awaiting(req[o])
        /\ Exists(Path(req[o].tempDir, SegmentName(0)))

\* the events of a request that are not log events
StageEvents(q) == SelectSeq(q.events, LAMBDA e : e.type # "log")

\* the k-th stage of a request of n segments that runs to its end
ExpectedStage(k, n, jobId) ==
    IF k = 1 THEN Status("starting", 0, 0)
    ELSE IF k <= 3 * n + 1
    THEN Status(<<"resolving", "downloading", "downloaded">>[((k - 2) % 3) + 1],
                ((k - 2) \div 3) + 1, n)
    ELSE IF k = 3 * n + 2 THEN Status("stitching", 0, 0)
    ELSE Done(jobId)

\* ev follows the stage order up to its m-th event
InStageOrder(ev, m, n, jobId) ==
    /\ m <= 3 * n + 3
    /\ \A k \in 1..m : ev[k] = ExpectedStage(k, n, jobId)

StagesOf(q) ==
    LET ev == StageEvents(q)
    IN  IF ev # <<>> /\ ev[Len(ev)].type = "error"
        THEN /\ Len(ev) - 1 <= 3 * Len(q.parsed) + 2
             /\ InStageOrder(ev, Len(ev) - 1, Len(q.parsed), q.jobId)
        ELSE InStageOrder(ev, Len(ev), Len(q.parsed), q.jobId)

\* C16: the events of a request other than its logs are `starting`, then
\* `resolving`, `downloading`, `downloaded` of segment 1, of segment 2, ..., then
\* `stitching`, then `done`, cut short at any place by an `error` that nothing
\* follows; and while no entry can have been evicted, the job of a request that
\* wrote `done` is in the registry and its artifact in the artifact directory.
C16_StagesInOrder ==
    \A r \in Reqs :
        /\ StagesOf(req[r])
        /\ (HasEvent(req[r], "done") /\ now <= RetentionMs) =>
               /\ req[r].jobId \in DOMAIN jobs
               /\ jobs[req[r].jobId].path \in DOMAIN pub

\* a request of two segments wrote all its stages and `done`; another wrote an
\* error right after `downloading` of its second segment
C16_Witness ==
    \E r \in Reqs, o \in Reqs :
        /\ Len(req[r].parsed) = 2 /\ HasEvent(req[r], "done")
        /\ Len(StageEvents(req[r])) = 9
        /\ Len(req[o].parsed) = 2 /\ HasEvent(req[o], "error")
        /\ Len(StageEvents(req[o])) = 7

\* x and y are the same number
SameNumber(x, y) == x.num * y.den = y.num * x.den

\* C17: when the concat invocation is made the manifest holds one line per row
\* of the batch, line k names segment-(k-1) of the request's temp directory,
\* which holds the clip cut from the locator of row k's url, at row k's start,
\* of duration end - start; the lines are pairwise distinct.
C17_ManifestFollowsBatch ==
    \A r \in Reqs :
        req[r].pc = "concat" =>
            /\ Exists(Path(req[r].tempDir, ListName))
            /\ Len(tmp[req[r].tempDir][ListName]) = Len(req[r].body.segments)
            /\ \A k \in 1..Len(req[r].body.segments) :
                   /\ tmp[req[r].tempDir][ListName][k].dir = req[r].tempDir
                   /\ tmp[req[r].tempDir][ListName][k].name.idx = k - 1
                   /\ Exists(tmp[req[r].tempDir][ListName][k])
                   /\ tmp[req[r].tempDir][tmp[req[r].tempDir][ListName][k].name].url
                          = <<"h">> \o Trim(req[r].body.segments[k].url.s)
                   /\ SameNumber(tmp[req[r].tempDir][tmp[req[r].tempDir][ListName][k].name].ss,
                                 parseTimestamp(req[r].body.segments[k].start))
                   /\ SameNumber(tmp[req[r].tempDir][tmp[req[r].tempDir][ListName][k].name].t,
                                 Minus(parseTimestamp(req[r].body.segments[k].end),
                                       parseTimestamp(req[r].body.segments[k].start)))
            /\ \A j \in 1..Len(req[r].body.segments), k \in 1..Len(req[r].body.segments) :
                   j # k => tmp[req[r].tempDir][ListName][j] # tmp[req[r].tempDir][ListName][k]

\* the concat invocation of the batch [LaterRow, PlainRow] is made
C17_Witness ==
    \E r \in Reqs :
        /\ req[r].pc = "concat"
        /\ req[r].body.segments = <<LaterRow, PlainRow>>
        /\ tmp[req[r].tempDir][SegmentName(0)].url = <<"h", "v">>
        /\ tmp[req[r].tempDir][SegmentName(1)].url = <<"h", "u">>

\* the k-th invocation of a request of n segments
ExpectedCall(k, n) ==
    IF k = 2 * n + 1 THEN [kind |-> "concat", idx |-> n - 1]
    ELSE [kind |-> IF k % 2 = 1 THEN "resolve" ELSE "cut", idx |-> (k - 1) \div 2]

\* C18: the invocations of a request are resolver(0), cut(0), resolver(1),
\* cut(1), ..., concat in this order, each issued after the one before it has
\* exited with code 0, so that at most one of them, the last, is running.
C18_OneInvocationAtATime ==
    \A r \in Reqs :
        /\ Len(req[r].calls) <= 2 * Len(req[r].parsed) + 1
        /\ \A k \in 1..Len(req[r].calls) :
               /\ req[r].calls[k].kind = ExpectedCall(k, Len(req[r].parsed)).kind
               /\ req[r].calls[k].idx = ExpectedCall(k, Len(req[r].parsed)).idx
               /\ k < Len(req[r].calls) => req[r].calls[k].code = "zero"
        /\ Cardinality({k \in 1..Len(req[r].calls) : req[r].calls[k].code = "running"}) <= 1

\* the cut of the second segment of one request and the concat of another are
\* running at the same time
C18_Witness ==
    \E r \in Reqs, o \in Reqs :
        /\ Len(req[r].calls) = 4 /\ req[r].calls[4].code = "running"
        /\ Len(req[o].calls) = 3 /\ req[o].calls[3].code = "running"
        /\ req[o].calls[3].kind = "concat"

\* C19: an invocation that exited nonzero or failed to spawn is the last of its
\* request, which has ended with the error event of that failure: the captured
\* stderr, the generic message with the command when stderr was empty, or the
\* spawn failure; a request whose invocations all exited with 0 wrote no error
\* unless the manifest or the copy failed, and a resolver that exited with 0
\* gave its stdout, trimmed.
C19_FailFastWithRunnerError ==
    \A r \in Reqs :
        /\ \A k \in 1..Len(req[r].calls) :
               req[r].calls[k].code \in {"nonzero", "error"} =>
                   /\ k = Len(req[r].calls)
                   /\ req[r].pc = "finished"
                   /\ req[r].events[Len(req[r].events)].type = "error"
                   /\ req[r].events[Len(req[r].events)].cmd
                          = (IF req[r].calls[k].code = "nonzero" /\ req[r].stderr # <<>>
                             THEN ""
                             ELSE IF req[r].calls[k].kind = "resolve" THEN "yt-dlp"
                             ELSE "ffmpeg")
                   /\ req[r].events[Len(req[r].events)].text
                          = (IF req[r].calls[k].code = "nonzero" THEN req[r].stderr ELSE <<>>)
                   /\ req[r].events[Len(req[r].events)].tag
                          = (IF req[r].calls[k].code = "error" THEN "spawn"
                             ELSE IF req[r].stderr # <<>> THEN "stderr"
                             ELSE "Command failed")
        /\ (HasEvent(req[r], "error") /\ req[r].calls # <<>>
                /\ req[r].calls[Len(req[r].calls)].code = "zero") =>
               req[r].err.tag \in {"writeFileSync", "copyFileSync"}
        /\ req[r].pc = "cut" =>
               req[r].directUrl = <<"h">> \o req[r].parsed[req[r].idx + 1].url

\* the cut of a request's second segment exited nonzero after writing to
\* stderr: the request ended with that text as its error, its third of five
\* invocations never made
C19_Witness ==
    \E r \in Reqs :
        /\ Len(req[r].parsed) = 2
        /\ Len(req[r].calls) = 4
        /\ req[r].calls[4].code = "nonzero"
        /\ req[r].stderr = StderrChunk
        /\ req[r].events[Len(req[r].events)] = ErrorEvent(Err("stderr", 0, StderrChunk, ""))

\* C20: a run of cleanupOldJobs leaves every entry created at now - 1 hour or
\* later in the registry, its fields unchanged, and leaves its artifact in the
\* artifact directory as it was; a download changes nothing.
C20_EvictionSparesFreshJobs ==
    [][/\ nextDue' # nextDue =>
              \A id \in DOMAIN jobs :
                  jobs[id].created >= now - RetentionMs =>
                      /\ id \in DOMAIN jobs'
                      /\ jobs'[id] = jobs[id]
                      /\ jobs[id].path \in DOMAIN pub =>
                             /\ jobs[id].path \in DOMAIN pub'
                             /\ pub'[jobs[id].path] = pub[jobs[id].path]
       /\ (req' = req /\ now' = now /\ nextDue' = nextDue) => (jobs' = jobs /\ pub' = pub)]_vars

=============================================================================
